---- MODULE Spec2Model ----
(***************************************************************************)
(* Model of counting-components (src/src/lib.rs): a signed permutation,    *)
(* the strand transition rule get_next_major_strand, the two orbit walks   *)
(* has_one_component and count_components_with_orientability, and the      *)
(* enumerators over coprime (m, n) pairs.                                  *)
(*                                                                         *)
(* Vectors are modelled as functions on 0..len-1 (Rust indices start at    *)
(* 0).  A usize subtraction that would go below zero, a division by zero   *)
(* and an out-of-range index are reported in the err field of the result   *)
(* of get_next_major_strand instead of producing a value.                  *)
(***************************************************************************)
EXTENDS Integers, Sequences, FiniteSets, TLC

\* ------------------------------------------------------------------ bounds
MaxL == 3
MaxM == 2
MaxN == 3
\* The enumerators are explored on shorter permutations and up to this complexity.
MaxEnumL == 2
\* Free choice of the orbits' origins is explored on permutations up to this length.
MaxOriginL == 2
MaxComplexity == 5

\* ------------------------------------------------------------- data model
None == [tag |-> "None", a |-> 0, b |-> 0]

Transverse(i) == [tag |-> "Transverse", a |-> i, b |-> 0]

PermutationDirection(j, k) == [tag |-> "PermutationDirection", a |-> j, b |-> k]

\* Position of a variant in the enum declaration: derive(Ord) compares it first.
VariantIndex(s) == IF s.tag = "Transverse" THEN 0 ELSE 1

\* derive(PartialOrd, Ord) on Strand: variant first, then the fields in order.
StrandLess(s, t) ==
    \/ VariantIndex(s) < VariantIndex(t)
    \/ /\ VariantIndex(s) = VariantIndex(t)
       /\ \/ s.a < t.a
          \/ s.a = t.a /\ s.b < t.b

\* Variant of pop_first: the greatest element of a non-empty set.
pop_last(S) == CHOOSE s \in S : \A t \in S : t = s \/ StrandLess(t, s)

\* BTreeSet::pop_first: the least element of a non-empty set.
pop_first(S) == CHOOSE s \in S : \A t \in S : t = s \/ StrandLess(s, t)

\* perm.permutation.len()
PermLen(perm) == Cardinality(DOMAIN perm.permutation)

\* Variant of NewPermLoop: perm_vector[index] = value, the sequence as given.
RECURSIVE NewPermLoopForward(_, _, _, _)
NewPermLoopForward(permutation, length, index, perm_vector) ==
    IF index = length
    THEN [err |-> "none", perm_vector |-> [i \in 0..(length - 1) |-> permutation[i]]]
    ELSE LET value == permutation[index] IN
         IF value >= length
         THEN [err |-> "InvalidPermutation", perm_vector |-> perm_vector]
         ELSE IF perm_vector[value] # length
         THEN [err |-> "InvalidPermutation", perm_vector |-> perm_vector]
         ELSE NewPermLoopForward(permutation, length, index + 1,
                                 [perm_vector EXCEPT ![value] = index])

\* The loop of SignedPermutation::new over the input sequence, from position
\* index on: perm_vector[value] = index, or the error of the first bad value.
RECURSIVE NewPermLoop(_, _, _, _)
NewPermLoop(permutation, length, index, perm_vector) ==
    IF index = length THEN [err |-> "none", perm_vector |-> perm_vector]
    ELSE LET value == permutation[index] IN
         IF value >= length
         THEN [err |-> "InvalidPermutation", perm_vector |-> perm_vector]
         ELSE IF perm_vector[value] # length
         THEN [err |-> "InvalidPermutation", perm_vector |-> perm_vector]
         ELSE NewPermLoop(permutation, length, index + 1,
                          [perm_vector EXCEPT ![value] = index])

\* Variant of SignedPermutationNew: a flip equal to the length is accepted.
SignedPermutationNewFlipGt(permutation, flips) ==
    LET length == Cardinality(DOMAIN permutation)
        r == NewPermLoop(permutation, length, 0, [i \in 0..(length - 1) |-> length])
    IN  IF r.err # "none"
        THEN [err |-> r.err, permutation |-> << >>, flip_set |-> {}]
        ELSE IF \E value \in flips : value > length
        THEN [err |-> "InvalidFlipset", permutation |-> << >>, flip_set |-> {}]
        ELSE [err |-> "none", permutation |-> r.perm_vector, flip_set |-> flips]

\* Variant of SignedPermutationNew: the flips are stored without validation.
SignedPermutationNewNoFlipCheck(permutation, flips) ==
    LET length == Cardinality(DOMAIN permutation)
        r == NewPermLoop(permutation, length, 0, [i \in 0..(length - 1) |-> length])
    IN  IF r.err # "none"
        THEN [err |-> r.err, permutation |-> << >>, flip_set |-> {}]
        ELSE [err |-> "none", permutation |-> r.perm_vector, flip_set |-> flips]

\* SignedPermutation::new(permutation, flips); flips is given by its elements.
SignedPermutationNew(permutation, flips) ==
    LET length == Cardinality(DOMAIN permutation)
        r == NewPermLoop(permutation, length, 0, [i \in 0..(length - 1) |-> length])
    IN  IF r.err # "none"
        THEN [err |-> r.err, permutation |-> << >>, flip_set |-> {}]
        ELSE IF \E value \in flips : value >= length
        THEN [err |-> "InvalidFlipset", permutation |-> << >>, flip_set |-> {}]
        ELSE [err |-> "none", permutation |-> r.perm_vector, flip_set |-> flips]

\* SignedPermutation::__call__(input)
\* Variant of SignedPermutationCall: the flip bit is always 0.
SignedPermutationCallNoFlag(perm, input) ==
    IF input >= PermLen(perm)
    THEN [err |-> "InvalidPermutation", value |-> << >>]
    ELSE [err |-> "none", value |-> <<perm.permutation[input], 0>>]

SignedPermutationCall(perm, input) ==
    IF input >= PermLen(perm)
    THEN [err |-> "InvalidPermutation", value |-> << >>]
    ELSE IF input \in perm.flip_set
    THEN [err |-> "none", value |-> <<perm.permutation[input], 1>>]
    ELSE [err |-> "none", value |-> <<perm.permutation[input], 0>>]

\* ------------------------------------------------------- transition rule
Panic(e) == [err |-> e, strand |-> None, flipped |-> 0]

Next_(strand, flipped) == [err |-> "none", strand |-> strand, flipped |-> flipped]

\* Variant of NextOfPermutationDirection: the copy region is left only when
\* absolute_index + n exceeds L*m.
NextOfPermutationDirectionLe(perm, m, n, perm_index0, copy_index0) ==
    LET flip == perm_index0 \in perm.flip_set
        flipped == IF flip THEN 1 ELSE 0
        copy_index == IF flip THEN m - copy_index0 - 1 ELSE copy_index0
    IN  IF flip /\ m - copy_index0 - 1 < 0 THEN Panic("underflow")
        ELSE IF perm_index0 \notin DOMAIN perm.permutation
        THEN Panic("index_out_of_range")
        ELSE LET perm_index == perm.permutation[perm_index0]
                 absolute_index == m * perm_index + copy_index
             IN  IF absolute_index + n <= PermLen(perm) * m
                 THEN Next_(PermutationDirection((absolute_index + n) \div m,
                                                 (absolute_index + n) % m), flipped)
                 ELSE IF PermLen(perm) * m - absolute_index - 1 < 0
                 THEN Panic("underflow")
                 ELSE Next_(Transverse(PermLen(perm) * m - absolute_index - 1), flipped)

\* Variant of NextOfPermutationDirection: the copy index is left out of the
\* absolute index.
NextOfPermutationDirectionNoCopy(perm, m, n, perm_index0, copy_index0) ==
    LET flip == perm_index0 \in perm.flip_set
        flipped == IF flip THEN 1 ELSE 0
    IN  IF flip /\ m - copy_index0 - 1 < 0 THEN Panic("underflow")
        ELSE IF perm_index0 \notin DOMAIN perm.permutation
        THEN Panic("index_out_of_range")
        ELSE LET perm_index == perm.permutation[perm_index0]
                 absolute_index == m * perm_index
             IN  IF absolute_index + n < PermLen(perm) * m
                 THEN Next_(PermutationDirection((absolute_index + n) \div m,
                                                 (absolute_index + n) % m), flipped)
                 ELSE IF PermLen(perm) * m - absolute_index - 1 < 0
                 THEN Panic("underflow")
                 ELSE Next_(Transverse(PermLen(perm) * m - absolute_index - 1), flipped)

\* Variant of NextOfPermutationDirection: a flipped index sets the flag but
\* leaves the copy index as it is.
NextOfPermutationDirectionNoMirror(perm, m, n, perm_index0, copy_index0) ==
    LET flip == perm_index0 \in perm.flip_set
        flipped == IF flip THEN 1 ELSE 0
        copy_index == copy_index0
    IN  IF flip /\ m - copy_index0 - 1 < 0 THEN Panic("underflow")
        ELSE IF perm_index0 \notin DOMAIN perm.permutation
        THEN Panic("index_out_of_range")
        ELSE LET perm_index == perm.permutation[perm_index0]
                 absolute_index == m * perm_index + copy_index
             IN  IF absolute_index + n < PermLen(perm) * m
                 THEN Next_(PermutationDirection((absolute_index + n) \div m,
                                                 (absolute_index + n) % m), flipped)
                 ELSE IF PermLen(perm) * m - absolute_index - 1 < 0
                 THEN Panic("underflow")
                 ELSE Next_(Transverse(PermLen(perm) * m - absolute_index - 1), flipped)

\* The Strand::PermutationDirection arm of get_next_major_strand.
NextOfPermutationDirection(perm, m, n, perm_index0, copy_index0) ==
    LET flip == perm_index0 \in perm.flip_set
        flipped == IF flip THEN 1 ELSE 0
        copy_index == IF flip THEN m - copy_index0 - 1 ELSE copy_index0
    IN  IF flip /\ m - copy_index0 - 1 < 0 THEN Panic("underflow")
        ELSE IF perm_index0 \notin DOMAIN perm.permutation
        THEN Panic("index_out_of_range")
        ELSE LET perm_index == perm.permutation[perm_index0]
                 absolute_index == m * perm_index + copy_index
             IN  IF absolute_index + n < PermLen(perm) * m
                 THEN Next_(PermutationDirection((absolute_index + n) \div m,
                                                 (absolute_index + n) % m), flipped)
                 ELSE IF PermLen(perm) * m - absolute_index - 1 < 0
                 THEN Panic("underflow")
                 ELSE Next_(Transverse(PermLen(perm) * m - absolute_index - 1), flipped)

\* Variant of NextOfTransverse: the absolute index is taken as n - index.
NextOfTransverseOffByOne(perm, m, n, index) ==
    IF index + PermLen(perm) * m < n
    THEN Next_(Transverse(index + PermLen(perm) * m), 0)
    ELSE IF m = 0 THEN Panic("div_by_zero")
    ELSE LET absolute_index == n - index
         IN  Next_(PermutationDirection(absolute_index \div m, absolute_index % m), 0)

\* Variant of NextOfTransverse: the quotient and remainder by m are computed
\* before the test on the index.
NextOfTransverseEagerDivision(perm, m, n, index) ==
    IF m = 0 THEN Panic("div_by_zero")
    ELSE IF index + PermLen(perm) * m < n
    THEN Next_(Transverse(index + PermLen(perm) * m), 0)
    ELSE IF n - index - 1 < 0 THEN Panic("underflow")
    ELSE LET absolute_index == n - index - 1
         IN  Next_(PermutationDirection(absolute_index \div m, absolute_index % m), 0)

\* The Strand::Transverse arm of get_next_major_strand.
NextOfTransverse(perm, m, n, index) ==
    IF index + PermLen(perm) * m < n
    THEN Next_(Transverse(index + PermLen(perm) * m), 0)
    ELSE IF n - index - 1 < 0 THEN Panic("underflow")
    ELSE IF m = 0 THEN Panic("div_by_zero")
    ELSE LET absolute_index == n - index - 1
         IN  Next_(PermutationDirection(absolute_index \div m, absolute_index % m), 0)

get_next_major_strand(perm, m, n, strand) ==
    IF strand.tag = "PermutationDirection"
    THEN NextOfPermutationDirection(perm, m, n, strand.a, strand.b)
    ELSE NextOfTransverse(perm, m, n, strand.a)

\* The strand space for (perm, m, n), as the two insertion loops of
\* count_components_with_orientability build it.
AllStrands(perm, m, n) ==
    {Transverse(i) : i \in 0..(n - 1)}
    \cup {PermutationDirection(j, k) : j \in 0..(PermLen(perm) - 1), k \in 0..(m - 1)}

\* ------------------------------------------------------------ orbit walks
\* Most applications of the rule a walk of the model may make: more than the
\* size of the strand space, so that a walk that fails to close is seen.
WalkCap(perm, m, n) == PermLen(perm) * m + n + 1

Idle == [pc |-> "idle"]

\* Variant of HasOneEnter: the orbit length starts at 0.
HasOneEnterZeroLength(perm, m, n) ==
    LET starting_strand == Transverse(0)
        next_strand_with_orientability == get_next_major_strand(perm, m, n, starting_strand)
    IN  IF next_strand_with_orientability.err # "none"
        THEN [pc |-> "panic", next_strand |-> starting_strand, orientability |-> 0,
              actual_orbit_length |-> 0]
        ELSE [pc |-> "loop", next_strand |-> next_strand_with_orientability.strand,
              orientability |-> next_strand_with_orientability.flipped,
              actual_orbit_length |-> 0]

\* has_one_component up to the first test of its while loop.
HasOneEnter(perm, m, n) ==
    LET starting_strand == Transverse(0)
        next_strand_with_orientability == get_next_major_strand(perm, m, n, starting_strand)
    IN  IF next_strand_with_orientability.err # "none"
        THEN [pc |-> "panic", next_strand |-> starting_strand, orientability |-> 0,
              actual_orbit_length |-> 1]
        ELSE [pc |-> "loop", next_strand |-> next_strand_with_orientability.strand,
              orientability |-> next_strand_with_orientability.flipped,
              actual_orbit_length |-> 1]

\* Variant of HasOneStep: the flip flags are added without reduction modulo 2.
HasOneStepNoMod(perm, m, n, f) ==
    IF f.next_strand # Transverse(0)
    THEN LET next_strand_with_orientability ==
                 get_next_major_strand(perm, m, n, f.next_strand)
         IN  IF next_strand_with_orientability.err # "none"
             THEN [f EXCEPT !.pc = "panic"]
             ELSE [f EXCEPT !.next_strand = next_strand_with_orientability.strand,
                            !.orientability = @ + next_strand_with_orientability.flipped,
                            !.actual_orbit_length = @ + 1]
    ELSE [f EXCEPT !.pc = "done"]

\* One test of the while loop of has_one_component and the body or exit it selects.
HasOneStep(perm, m, n, f) ==
    IF f.next_strand # Transverse(0)
    THEN LET next_strand_with_orientability ==
                 get_next_major_strand(perm, m, n, f.next_strand)
         IN  IF next_strand_with_orientability.err # "none"
             THEN [f EXCEPT !.pc = "panic"]
             ELSE [f EXCEPT !.next_strand = next_strand_with_orientability.strand,
                            !.orientability =
                                (@ + next_strand_with_orientability.flipped) % 2,
                            !.actual_orbit_length = @ + 1]
    ELSE [f EXCEPT !.pc = "done"]

\* The value has_one_component returns from a frame whose loop has exited.
HasOneResult(perm, m, n, f) ==
    <<m * PermLen(perm) + n = f.actual_orbit_length, f.orientability>>

\* count_components_with_orientability up to the first test of its outer loop.
CountEnter(perm, m, n) ==
    [pc |-> "outer", strands |-> AllStrands(perm, m, n),
     first_strand |-> None, next_strand |-> None, orientability |-> 0,
     two_sided_components |-> 0, one_sided_components |-> 0]

\* Variant of CountStartOrbit: the flip flag of the step out of the origin is
\* not counted.
CountStartOrbitNoFirstFlag(perm, m, n, f, origin) ==
    LET next_strand_with_orientability == get_next_major_strand(perm, m, n, origin)
    IN  IF next_strand_with_orientability.err # "none"
        THEN [f EXCEPT !.pc = "panic", !.strands = @ \ {origin}, !.first_strand = origin]
        ELSE [f EXCEPT !.pc = "inner", !.strands = @ \ {origin},
                       !.first_strand = origin,
                       !.orientability = 0,
                       !.next_strand = next_strand_with_orientability.strand]

\* The outer loop body up to the first test of the inner loop, with the given
\* strand taken out of the working set as the orbit's origin.
CountStartOrbit(perm, m, n, f, origin) ==
    LET next_strand_with_orientability == get_next_major_strand(perm, m, n, origin)
    IN  IF next_strand_with_orientability.err # "none"
        THEN [f EXCEPT !.pc = "panic", !.strands = @ \ {origin}, !.first_strand = origin]
        ELSE [f EXCEPT !.pc = "inner", !.strands = @ \ {origin},
                       !.first_strand = origin,
                       !.orientability = next_strand_with_orientability.flipped,
                       !.next_strand = next_strand_with_orientability.strand]

\* One test of the outer loop: pop the first strand, or leave the loop.
CountOuter(perm, m, n, f) ==
    IF f.strands # {}
    THEN CountStartOrbit(perm, m, n, f, pop_first(f.strands))
    ELSE [f EXCEPT !.pc = "done"]

\* Variant of CountInner: the flip flag of a step of the walk is not added.
CountInnerNoFlip(perm, m, n, f) ==
    IF f.next_strand # f.first_strand
    THEN LET next_strand_with_orientability ==
                 get_next_major_strand(perm, m, n, f.next_strand)
         IN  IF next_strand_with_orientability.err # "none"
             THEN [f EXCEPT !.pc = "panic"]
             ELSE [f EXCEPT !.strands = @ \ {f.next_strand},
                            !.next_strand = next_strand_with_orientability.strand]
    ELSE IF f.orientability % 2 = 0
         THEN [f EXCEPT !.pc = "outer", !.two_sided_components = @ + 1]
         ELSE [f EXCEPT !.pc = "outer", !.one_sided_components = @ + 1]

\* Variant of CountInner: the visited strand stays in the working set.
CountInnerNoRemove(perm, m, n, f) ==
    IF f.next_strand # f.first_strand
    THEN LET next_strand_with_orientability ==
                 get_next_major_strand(perm, m, n, f.next_strand)
         IN  IF next_strand_with_orientability.err # "none"
             THEN [f EXCEPT !.pc = "panic"]
             ELSE [f EXCEPT !.orientability = @ + next_strand_with_orientability.flipped,
                            !.next_strand = next_strand_with_orientability.strand]
    ELSE IF f.orientability % 2 = 0
         THEN [f EXCEPT !.pc = "outer", !.two_sided_components = @ + 1]
         ELSE [f EXCEPT !.pc = "outer", !.one_sided_components = @ + 1]

\* One test of the inner loop: one more step of the walk, or the
\* classification of the closed orbit.
CountInner(perm, m, n, f) ==
    IF f.next_strand # f.first_strand
    THEN LET next_strand_with_orientability ==
                 get_next_major_strand(perm, m, n, f.next_strand)
         IN  IF next_strand_with_orientability.err # "none"
             THEN [f EXCEPT !.pc = "panic"]
             ELSE [f EXCEPT !.strands = @ \ {f.next_strand},
                            !.orientability = @ + next_strand_with_orientability.flipped,
                            !.next_strand = next_strand_with_orientability.strand]
    ELSE IF f.orientability % 2 = 0
         THEN [f EXCEPT !.pc = "outer", !.two_sided_components = @ + 1]
         ELSE [f EXCEPT !.pc = "outer", !.one_sided_components = @ + 1]

CountResult(f) == <<f.two_sided_components, f.one_sided_components>>

\* Fuel for running a whole call as one evaluation: more tests than any call
\* on a strand space of this size makes.
RunFuel(perm, m, n) == 3 * (PermLen(perm) * m + n) + 3

RECURSIVE HasOneRun(_, _, _, _, _)
HasOneRun(perm, m, n, f, fuel) ==
    IF f.pc # "loop" \/ fuel = 0 THEN f
    ELSE HasOneRun(perm, m, n, HasOneStep(perm, m, n, f), fuel - 1)

\* has_one_component(perm, m, n) as a function of its arguments: how the call
\* ends ("done", "panic", or "loop" when the fuel ran out) and what it returns.
has_one_component(perm, m, n) ==
    LET f == HasOneRun(perm, m, n, HasOneEnter(perm, m, n), RunFuel(perm, m, n))
    IN  [pc |-> f.pc,
         value |-> IF f.pc = "done" THEN HasOneResult(perm, m, n, f) ELSE << >>]

RECURSIVE CountRun(_, _, _, _, _)
CountRun(perm, m, n, f, fuel) ==
    IF f.pc \notin {"outer", "inner"} \/ fuel = 0 THEN f
    ELSE CountRun(perm, m, n,
                  IF f.pc = "outer" THEN CountOuter(perm, m, n, f)
                                    ELSE CountInner(perm, m, n, f),
                  fuel - 1)

\* count_components_with_orientability(perm, m, n) as a function of its arguments.
count_components_with_orientability(perm, m, n) ==
    LET f == CountRun(perm, m, n, CountEnter(perm, m, n), RunFuel(perm, m, n))
    IN  [pc |-> f.pc, value |-> IF f.pc = "done" THEN CountResult(f) ELSE << >>]

\* ------------------------------------- has_one_component without overflow checks
\* usize is narrowed to UsizeBits bits; a build without overflow checks
\* reduces +, - and * modulo Word, and still checks indexing and division.
UsizeBits == 5

Word == 2^UsizeBits

\* The Strand::PermutationDirection arm of get_next_major_strand, arithmetic
\* modulo Word.
WrappingNextOfPermutationDirection(perm, m, n, perm_index0, copy_index0) ==
    LET flip == perm_index0 \in perm.flip_set
        flipped == IF flip THEN 1 ELSE 0
        copy_index == IF flip THEN (m - copy_index0 - 1) % Word ELSE copy_index0
    IN  IF perm_index0 \notin DOMAIN perm.permutation
        THEN Panic("index_out_of_range")
        ELSE LET perm_index == perm.permutation[perm_index0]
                 absolute_index == (m * perm_index + copy_index) % Word
                 width == (PermLen(perm) * m) % Word
             IN  IF (absolute_index + n) % Word < width
                 THEN Next_(PermutationDirection(((absolute_index + n) % Word) \div m,
                                                 ((absolute_index + n) % Word) % m),
                            flipped)
                 ELSE Next_(Transverse((width - absolute_index - 1) % Word), flipped)

\* The Strand::Transverse arm of get_next_major_strand, arithmetic modulo Word.
WrappingNextOfTransverse(perm, m, n, index) ==
    LET width == (PermLen(perm) * m) % Word
    IN  IF (index + width) % Word < n
        THEN Next_(Transverse((index + width) % Word), 0)
        ELSE IF m = 0 THEN Panic("div_by_zero")
        ELSE LET absolute_index == (n - index - 1) % Word
             IN  Next_(PermutationDirection(absolute_index \div m, absolute_index % m), 0)

\* get_next_major_strand, arithmetic modulo Word.
WrappingGetNextMajorStrand(perm, m, n, strand) ==
    IF strand.tag = "PermutationDirection"
    THEN WrappingNextOfPermutationDirection(perm, m, n, strand.a, strand.b)
    ELSE WrappingNextOfTransverse(perm, m, n, strand.a)

\* has_one_component up to the first test of its while loop, arithmetic
\* modulo Word.
HasOneEnterWrapping(perm, m, n) ==
    LET starting_strand == Transverse(0)
        next_strand_with_orientability ==
            WrappingGetNextMajorStrand(perm, m, n, starting_strand)
    IN  IF next_strand_with_orientability.err # "none"
        THEN [pc |-> "panic", next_strand |-> starting_strand, orientability |-> 0,
              actual_orbit_length |-> 1]
        ELSE [pc |-> "loop_wrapping",
              next_strand |-> next_strand_with_orientability.strand,
              orientability |-> next_strand_with_orientability.flipped,
              actual_orbit_length |-> 1]

\* One test of the while loop of has_one_component and the body or exit it
\* selects, arithmetic modulo Word.
HasOneStepWrapping(perm, m, n, f) ==
    IF f.next_strand # Transverse(0)
    THEN LET next_strand_with_orientability ==
                 WrappingGetNextMajorStrand(perm, m, n, f.next_strand)
         IN  IF next_strand_with_orientability.err # "none"
             THEN [f EXCEPT !.pc = "panic"]
             ELSE [f EXCEPT !.next_strand = next_strand_with_orientability.strand,
                            !.orientability =
                                (@ + next_strand_with_orientability.flipped) % 2,
                            !.actual_orbit_length = (@ + 1) % Word]
    ELSE [f EXCEPT !.pc = "done"]

\* The value has_one_component returns, arithmetic modulo Word.
HasOneResultWrapping(perm, m, n, f) ==
    <<(m * PermLen(perm) + n) % Word = f.actual_orbit_length, f.orientability>>

\* -------------------------------------------------------------- enumerators
\* Gcd::gcd_binary of the gcd crate: the greatest common divisor.
RECURSIVE gcd_binary(_, _)
gcd_binary(u, v) == IF v = 0 THEN u ELSE gcd_binary(v, u % v)

\* The items the nested parallel ranges (2..complexity) and (1..k) produce,
\* before the filter: one task each.
Tasks(complexity) == {<<k, nn>> : k \in 2..(complexity - 1), nn \in 1..(complexity - 1)}
                     \cap {t \in (Nat \X Nat) : t[2] < t[1]}

\* Variant of FullTask: no coprimality filter.
FullTaskNoFilter(perm, k, nn) ==
    LET mm == k - nn
    IN  <<  <<<<mm, nn>>, count_components_with_orientability(perm, mm, nn).value>>  >>

\* What the closures of count_components_upto_complexity make of item (k, n):
\* the items that pass the filter, mapped.
FullTask(perm, k, nn) ==
    IF gcd_binary(k, nn) = 1
    THEN LET mm == k - nn
         IN  <<  <<<<mm, nn>>, count_components_with_orientability(perm, mm, nn).value>>  >>
    ELSE << >>

\* Variant of TwoSidedTask: the pairs kept are those without two-sided components.
TwoSidedTaskFirstCount(perm, k, nn) ==
    IF gcd_binary(k, nn) = 1
    THEN LET mm == k - nn
             item == <<<<mm, nn>>, count_components_with_orientability(perm, mm, nn).value>>
         IN  IF item[2][1] = 0 THEN << item[1] >> ELSE << >>
    ELSE << >>

\* The same for two_sided_multicurves_upto_complexity.
TwoSidedTask(perm, k, nn) ==
    IF gcd_binary(k, nn) = 1
    THEN LET mm == k - nn
             item == <<<<mm, nn>>, count_components_with_orientability(perm, mm, nn).value>>
         IN  IF item[2][2] = 0 THEN << item[1] >> ELSE << >>
    ELSE << >>

\* collect(): the tasks' outputs concatenated in the order of the sequential
\* iterator, k ascending and n ascending within k, from item (k, nn) on.
RECURSIVE Collect(_, _, _, _)
Collect(out, complexity, k, nn) ==
    IF k >= complexity THEN << >>
    ELSE IF nn >= k THEN Collect(out, complexity, k + 1, 1)
    ELSE out[<<k, nn>>] \o Collect(out, complexity, k, nn + 1)

\* count_components_upto_complexity(perm, complexity) as a function of its arguments.
count_components_upto_complexity(perm, complexity) ==
    Collect([t \in Tasks(complexity) |-> FullTask(perm, t[1], t[2])], complexity, 2, 1)

\* two_sided_multicurves_upto_complexity(perm, complexity) as a function of its arguments.
two_sided_multicurves_upto_complexity(perm, complexity) ==
    Collect([t \in Tasks(complexity) |-> TwoSidedTask(perm, t[1], t[2])], complexity, 2, 1)

\* ------------------------------------------------------------------ state
VARIABLES
    sequence,      \* the permutation argument SignedPermutation::new was given
    flips,         \* the elements of its flips argument
    permutation,   \* SignedPermutation.permutation
    flip_set,      \* SignedPermutation.flip_set
    built,         \* "new" before SignedPermutation::new has run, then "ok" or its error
    op,            \* the query running or last run
    m, n,          \* its arguments
    frame,         \* its local variables and its position
    ret,           \* the value it returned, << >> while there is none
    removed,       \* history: how often pop_first or remove was applied to each strand
    walked,        \* history: applications of the rule in the current orbit walk
    complexity,    \* the complexity argument of a running enumerator
    pending,       \* its tasks that have not run yet
    out            \* the output of each of its tasks that has run

vars == <<sequence, flips, permutation, flip_set, built, op, m, n, frame, ret,
          removed, walked, complexity, pending, out>>

hist == <<removed, walked>>

\* One more pop_first or remove of strand s.
Removal(bag, s) ==
    IF s \in DOMAIN bag THEN [bag EXCEPT ![s] = @ + 1] ELSE (s :> 1) @@ bag

enum == <<complexity, pending, out>>

object == <<sequence, flips, permutation, flip_set, built>>

\* The object the queries borrow.
Perm == [permutation |-> permutation, flip_set |-> flip_set]

L == PermLen(Perm)

InitUpTo(maxlen) ==
    /\ \E len \in 0..maxlen :
         \E s \in [0..(len - 1) -> 0..len], fl \in SUBSET (0..len) :
            LET new == SignedPermutationNew(s, fl)
            IN  /\ new.err = "none"
                /\ sequence = s
                /\ flips = fl
                /\ permutation = new.permutation
                /\ flip_set = new.flip_set
    /\ built = "ok"
    /\ op = "none"
    /\ m = 0
    /\ n = 0
    /\ frame = Idle
    /\ ret = << >>
    /\ removed = << >>
    /\ walked = 0
    /\ complexity = 0
    /\ pending = {}
    /\ out = << >>

Init == InitUpTo(MaxL)

\* No query is running: the caller may start one.
Callable == built = "ok" /\ frame.pc = "idle"

\* The locals of an earlier call are gone when the next call starts.
NoWalk == m' = 0 /\ n' = 0 /\ removed' = << >> /\ walked' = 0

NoEnum == complexity' = 0 /\ pending' = {} /\ out' = << >>

\* The call is over (returned, raised or panicked): control is back with the
\* caller, which may call again.
Return ==
    /\ frame.pc \in {"done", "panic", "error"}
    /\ frame' = Idle
    /\ op' = "none"
    /\ ret' = << >>
    /\ NoWalk
    /\ NoEnum
    /\ UNCHANGED object

HasOneCall ==
    /\ Callable
    /\ \E mm \in 0..MaxM, nn \in 0..MaxN :
         /\ m' = mm
         /\ n' = nn
         /\ frame' = HasOneEnter(Perm, mm, nn)
    /\ op' = "has_one_component"
    /\ ret' = << >>
    /\ removed' = << >>
    /\ walked' = 0
    /\ NoEnum
    /\ UNCHANGED object

HasOneLoop ==
    /\ op = "has_one_component"
    /\ frame.pc = "loop"
    /\ frame.actual_orbit_length < WalkCap(Perm, m, n)
    /\ frame' = HasOneStep(Perm, m, n, frame)
    /\ ret' = IF frame'.pc = "done" THEN HasOneResult(Perm, m, n, frame') ELSE << >>
    /\ UNCHANGED <<object, op, m, n, hist, enum>>

CountCall ==
    /\ Callable
    /\ \E mm \in 0..MaxM, nn \in 0..MaxN :
         /\ m' = mm
         /\ n' = nn
         /\ frame' = CountEnter(Perm, mm, nn)
    /\ op' = "count_components_with_orientability"
    /\ ret' = << >>
    /\ removed' = << >>
    /\ walked' = 0
    /\ NoEnum
    /\ UNCHANGED object

CountOuterLoop ==
    /\ op = "count_components_with_orientability"
    /\ frame.pc = "outer"
    /\ frame' = CountOuter(Perm, m, n, frame)
    /\ ret' = IF frame'.pc = "done" THEN CountResult(frame') ELSE << >>
    /\ removed' = IF frame.strands # {} THEN Removal(removed, frame'.first_strand)
                  ELSE removed
    /\ walked' = IF frame.strands # {} THEN 1 ELSE 0
    /\ UNCHANGED <<object, op, m, n, enum>>

CountInnerLoop ==
    /\ op = "count_components_with_orientability"
    /\ frame.pc = "inner"
    /\ walked < WalkCap(Perm, m, n)
    /\ frame' = CountInner(Perm, m, n, frame)
    /\ removed' = IF frame.next_strand # frame.first_strand /\ frame'.pc # "panic"
                  THEN Removal(removed, frame.next_strand)
                  ELSE removed
    /\ walked' = IF frame.next_strand # frame.first_strand THEN walked + 1 ELSE 0
    /\ UNCHANGED <<object, op, m, n, ret, enum>>

Next ==
    \/ HasOneCall
    \/ HasOneLoop
    \/ CountCall
    \/ CountOuterLoop
    \/ CountInnerLoop
    \/ Return

Spec == Init /\ [][Next]_vars

\* A call that has started keeps running: nothing suspends or cancels it.
FairSpec ==
    /\ Spec
    /\ WF_vars(HasOneLoop)
    /\ WF_vars(CountOuterLoop)
    /\ WF_vars(CountInnerLoop)

\* The outer loop with the origin of each orbit picked freely among the strands
\* still in the working set, in place of pop_first.
AnyOriginOuterLoop ==
    /\ op = "count_components_with_orientability"
    /\ frame.pc = "outer"
    /\ IF frame.strands = {}
       THEN /\ frame' = [frame EXCEPT !.pc = "done"]
            /\ ret' = CountResult(frame')
            /\ UNCHANGED hist
       ELSE \E origin \in frame.strands :
            /\ frame' = CountStartOrbit(Perm, m, n, frame, origin)
            /\ ret' = << >>
            /\ removed' = Removal(removed, origin)
            /\ walked' = 1
    /\ UNCHANGED <<object, op, m, n, enum>>

NextAnyOrigin ==
    \/ CountCall
    \/ AnyOriginOuterLoop
    \/ CountInnerLoop
    \/ Return

SpecAnyOrigin == InitUpTo(MaxOriginL) /\ [][NextAnyOrigin]_vars

\* ------------------------------------------------------ enumerator actions
EnumCall(name) ==
    /\ Callable
    /\ \E c \in 0..MaxComplexity :
         /\ complexity' = c
         /\ pending' = Tasks(c)
    /\ op' = name
    /\ out' = << >>
    /\ frame' = [pc |-> "tasks"]
    /\ ret' = << >>
    /\ NoWalk
    /\ UNCHANGED object

CountUptoCall == EnumCall("count_components_upto_complexity")

TwoSidedCall == EnumCall("two_sided_multicurves_upto_complexity")

\* Variant of EnumTask: the tasks push their outputs onto one shared vector, in
\* the order in which they finish.
EnumTaskSharedVector ==
    /\ frame.pc = "tasks"
    /\ \E t \in pending :
         LET shared == IF <<2, 1>> \in DOMAIN out THEN out[<<2, 1>>] ELSE << >>
             output == IF op = "count_components_upto_complexity"
                       THEN FullTask(Perm, t[1], t[2])
                       ELSE TwoSidedTask(Perm, t[1], t[2])
         IN  /\ pending' = pending \ {t}
             /\ out' = (<<2, 1>> :> (shared \o output)) @@ (t :> << >>) @@ out
    /\ UNCHANGED <<object, op, m, n, frame, ret, hist, complexity>>

\* A worker runs one task that has not run yet.
EnumTask ==
    /\ frame.pc = "tasks"
    /\ \E t \in pending :
         /\ pending' = pending \ {t}
         /\ out' = (t :> (IF op = "count_components_upto_complexity"
                          THEN FullTask(Perm, t[1], t[2])
                          ELSE TwoSidedTask(Perm, t[1], t[2]))) @@ out
    /\ UNCHANGED <<object, op, m, n, frame, ret, hist, complexity>>

\* All tasks have run: collect() hands the vector to the caller.
EnumJoin ==
    /\ frame.pc = "tasks"
    /\ pending = {}
    /\ ret' = Collect(out, complexity, 2, 1)
    /\ frame' = [pc |-> "done"]
    /\ UNCHANGED <<object, op, m, n, hist, enum>>

NextEnum ==
    \/ CountUptoCall
    \/ TwoSidedCall
    \/ EnumTask
    \/ EnumJoin
    \/ Return

SpecEnum == InitUpTo(MaxEnumL) /\ [][NextEnum]_vars

\* ------------------------------------------- construction and evaluation
\* The flips arguments tried: every set of indices up to the length, and [5].
RawFlips(len) == SUBSET (0..len) \cup {{5}}

\* Before construction: the arguments are chosen, no object exists.
InitRaw ==
    /\ \E len \in 0..MaxL :
         /\ sequence \in [0..(len - 1) -> 0..len]
         /\ flips \in RawFlips(len)
    /\ permutation = << >>
    /\ flip_set = {}
    /\ built = "new"
    /\ op = "none"
    /\ m = 0
    /\ n = 0
    /\ frame = Idle
    /\ ret = << >>
    /\ removed = << >>
    /\ walked = 0
    /\ complexity = 0
    /\ pending = {}
    /\ out = << >>

\* SignedPermutation::new runs: an object on Ok, an error and no object on Err.
Construct ==
    /\ built = "new"
    /\ LET new == SignedPermutationNew(sequence, flips)
       IN  /\ built' = IF new.err = "none" THEN "ok" ELSE new.err
           /\ permutation' = new.permutation
           /\ flip_set' = new.flip_set
    /\ UNCHANGED <<sequence, flips, op, m, n, frame, ret, hist, enum>>

\* SignedPermutation::__call__ runs on some input.
Evaluate ==
    /\ Callable
    /\ \E input \in 0..(L + 1) :
         LET r == SignedPermutationCall(Perm, input)
         IN  /\ frame' = [pc |-> IF r.err = "none" THEN "done" ELSE "error",
                          input |-> input, err |-> r.err]
             /\ ret' = r.value
    /\ op' = "__call__"
    /\ NoWalk
    /\ NoEnum
    /\ UNCHANGED object

\* The enumerators are started on permutations up to length MaxEnumL.
NextObject ==
    \/ Construct
    \/ Evaluate
    \/ Next
    \/ (L <= MaxEnumL /\ (CountUptoCall \/ TwoSidedCall \/ EnumTask \/ EnumJoin))

SpecObject == InitRaw /\ [][NextObject]_vars

\* --------------------------- the call of has_one_component with n = 0
\* The values of m tried with n = 0: the small ones, and half the range of usize.
ZeroCallM == (0..MaxM) \cup {Word \div 2}

\* Most tests of the while loop the model follows in a call with n = 0.
ZeroCallCap == 2 * MaxL + 2

\* has_one_component(perm, m, 0) in a build without overflow checks.
HasOneCallWrapping ==
    /\ Callable
    /\ \E mm \in ZeroCallM :
         /\ m' = mm
         /\ frame' = HasOneEnterWrapping(Perm, mm, 0)
    /\ n' = 0
    /\ op' = "has_one_component"
    /\ ret' = << >>
    /\ removed' = << >>
    /\ walked' = 0
    /\ NoEnum
    /\ UNCHANGED object

HasOneLoopWrapping ==
    /\ op = "has_one_component"
    /\ frame.pc = "loop_wrapping"
    /\ frame.actual_orbit_length < ZeroCallCap
    /\ frame' = HasOneStepWrapping(Perm, m, n, frame)
    /\ ret' = IF frame'.pc = "done" THEN HasOneResultWrapping(Perm, m, n, frame')
              ELSE << >>
    /\ UNCHANGED <<object, op, m, n, hist, enum>>

NextWrapping ==
    \/ HasOneCallWrapping
    \/ HasOneLoopWrapping
    \/ Next

SpecWrapping == Init /\ [][NextWrapping]_vars


\* ------------------------------------------------- reference definitions
\* The strand space of section 3 of the specification for (perm, mm, nn).
StrandSpace(perm, mm, nn) ==
    {Transverse(i) : i \in 0..(nn - 1)}
    \cup {PermutationDirection(j, k) : j \in 0..(PermLen(perm) - 1), k \in 0..(mm - 1)}

Succ(perm, mm, nn, s) == get_next_major_strand(perm, mm, nn, s).strand

Flag(perm, mm, nn, s) == get_next_major_strand(perm, mm, nn, s).flipped

\* acc and the strands reached from s by applying the rule any number of times.
RECURSIVE Closure(_, _, _, _, _)
Closure(perm, mm, nn, s, acc) ==
    IF s \in acc THEN acc
    ELSE Closure(perm, mm, nn, Succ(perm, mm, nn, s), acc \cup {s})

\* The strands reached from s by applying the rule any number of times.
OrbitOf(perm, mm, nn, s) == Closure(perm, mm, nn, s, {})

Orbits(perm, mm, nn) == {OrbitOf(perm, mm, nn, s) : s \in StrandSpace(perm, mm, nn)}

\* The flip flags of the steps out of the strands of S, summed.
RECURSIVE FlipSum(_, _, _, _)
FlipSum(perm, mm, nn, S) ==
    IF S = {} THEN 0
    ELSE LET s == CHOOSE x \in S : TRUE
         IN  Flag(perm, mm, nn, s) + FlipSum(perm, mm, nn, S \ {s})

\* (number of orbits of even flip sum, number of orbits of odd flip sum)
OrbitCounts(perm, mm, nn) ==
    <<Cardinality({o \in Orbits(perm, mm, nn) : FlipSum(perm, mm, nn, o) % 2 = 0}),
      Cardinality({o \in Orbits(perm, mm, nn) : FlipSum(perm, mm, nn, o) % 2 = 1})>>

Space == StrandSpace(Perm, m, n)

InCount == op = "count_components_with_orientability"

InHasOne == op = "has_one_component"

\* A call of one of the two walks has just been entered with (Perm, m, n).
Entered ==
    \/ InCount /\ frame.pc = "outer" /\ removed = << >>
    \/ InHasOne /\ frame.actual_orbit_length = 1

\* ------------------------------------------------------------------ claims
\* C1: for m >= 1 and n >= 1 count_components_with_orientability returns, and
\* what it returns is (the number of orbits of the transition rule on the
\* strand space whose flip flags sum to an even number over one cycle, the
\* number of orbits whose flip flags sum to an odd number).
C1_CountsOrbitsByParity ==
    (InCount /\ m >= 1 /\ n >= 1) =>
        /\ frame.pc # "panic"
        /\ frame.pc = "done" => ret = OrbitCounts(Perm, m, n)

C1_Witness ==
    /\ InCount /\ frame.pc = "done" /\ m >= 2 /\ n >= 1 /\ L >= 2
    /\ ret[1] >= 1 /\ ret[2] >= 1

\* C2: for m >= 1 and n >= 1 every strand of the strand space is the successor
\* of exactly one strand of the strand space.
C2_TransitionIsBijection ==
    (Entered /\ m >= 1 /\ n >= 1) =>
        \A t \in Space : Cardinality({s \in Space : Succ(Perm, m, n, s) = t}) = 1

C2_Witness ==
    /\ Entered /\ m >= 2 /\ n >= 2 /\ L >= 3 /\ flip_set # {}
    /\ \E s \in Space : s.tag = "PermutationDirection"
                        /\ Succ(Perm, m, n, s).tag = "Transverse"

RECURSIVE Total(_)
Total(bag) ==
    IF DOMAIN bag = {} THEN 0
    ELSE LET s == CHOOSE x \in DOMAIN bag : TRUE
         IN  bag[s] + Total([x \in DOMAIN bag \ {s} |-> bag[x]])

\* C3: while count_components_with_orientability runs, every strand taken out
\* of the working set is a strand of the strand space taken out once, the
\* working set is the strand space less the strands taken out, the strand a
\* walk is about to visit is still in the working set, and on return every
\* strand has been taken out, so the orbit lengths add up to L*m+n.
C3_EveryStrandRemovedOnce ==
    (InCount /\ frame.pc # "panic") =>
        /\ \A s \in DOMAIN removed : removed[s] = 1 /\ s \in Space
        /\ frame.strands = Space \ DOMAIN removed
        /\ (frame.pc = "inner" /\ frame.next_strand # frame.first_strand)
               => frame.next_strand \in frame.strands
        /\ frame.pc = "done" => /\ DOMAIN removed = Space
                                /\ Total(removed) = L * m + n

C3_Witness ==
    /\ InCount /\ frame.pc = "done" /\ L >= 2 /\ m >= 1 /\ n >= 1
    /\ ret[1] + ret[2] >= 2
    /\ Total(removed) = L * m + n

Identity2 == [i \in 0..1 |-> i]

\* C4: for m >= 1 and n >= 1 has_one_component returns (b, p) with b true
\* exactly when the orbit of Transverse(0) is the whole strand space and p the
\* flip flags of that orbit's steps summed modulo 2; on the identity of length
\* 2 with m = n = 1 it returns (TRUE, 0) without flips and (TRUE, 1) with
\* flips = {0}.
C4_HasOneComponentResult ==
    (InHasOne /\ m >= 1 /\ n >= 1) =>
        /\ frame.pc # "panic"
        /\ frame.pc = "done" =>
             /\ ret[1] = (OrbitOf(Perm, m, n, Transverse(0)) = Space)
             /\ ret[2] = FlipSum(Perm, m, n, OrbitOf(Perm, m, n, Transverse(0))) % 2
             /\ (sequence = Identity2 /\ m = 1 /\ n = 1 /\ flips = {})
                    => ret = <<TRUE, 0>>
             /\ (sequence = Identity2 /\ m = 1 /\ n = 1 /\ flips = {0})
                    => ret = <<TRUE, 1>>

C4_Witness ==
    /\ InHasOne /\ frame.pc = "done"
    /\ sequence = Identity2 /\ flips = {0} /\ m = 1 /\ n = 1
    /\ ret = <<TRUE, 1>>

\* C5: for m >= 1 and n >= 1 has_one_component returns true exactly when
\* count_components_with_orientability returns counts that add up to 1, and
\* then its parity is 0 exactly for (1, 0) and 1 exactly for (0, 1).
C5_HasOneAgreesWithCount ==
    (InHasOne /\ m >= 1 /\ n >= 1 /\ frame.pc = "done") =>
        LET c == count_components_with_orientability(Perm, m, n)
        IN  /\ c.pc = "done"
            /\ ret[1] <=> (c.value[1] + c.value[2] = 1)
            /\ ret[1] => /\ (ret[2] = 0 <=> c.value = <<1, 0>>)
                         /\ (ret[2] = 1 <=> c.value = <<0, 1>>)

C5_Witness ==
    /\ InHasOne /\ m >= 1 /\ n >= 2 /\ L >= 2 /\ frame.pc = "done"
    /\ ret = <<TRUE, 1>>
    /\ count_components_with_orientability(Perm, m, n).value = <<0, 1>>

\* C8: for m >= 1 and n >= 0 get_next_major_strand maps every strand of the
\* strand space to a strand of the strand space, without an underflow, a
\* division by zero or an index out of range.
C8_TransitionTotal ==
    (Entered /\ m >= 1) =>
        \A s \in Space :
            LET r == get_next_major_strand(Perm, m, n, s)
            IN  r.err = "none" /\ r.strand \in Space /\ r.flipped \in {0, 1}

C8_Witness ==
    /\ Entered /\ InCount /\ m >= 2 /\ n = 0 /\ L >= 2 /\ flip_set # {}
    /\ \A s \in Space : get_next_major_strand(Perm, m, n, s).strand \in Space

Running == frame.pc \in {"loop", "outer", "inner"}

\* C9: for m >= 1 a walk of count_components_with_orientability (n >= 0) and
\* the walk of has_one_component (n >= 1) is back at its origin after at most
\* L*m+n applications of the rule, and the call returns.
C9_WalkBounded ==
    /\ (InCount /\ m >= 1) =>
           /\ frame.pc # "panic"
           /\ (frame.pc = "inner" /\ frame.next_strand # frame.first_strand)
                  => walked < L * m + n
    /\ (InHasOne /\ m >= 1 /\ n >= 1) =>
           /\ frame.pc # "panic"
           /\ (frame.pc = "loop" /\ frame.next_strand # Transverse(0))
                  => frame.actual_orbit_length < L * m + n

\* C9: every walk stays within that bound, and every call that has started
\* (count_components_with_orientability for n >= 0, has_one_component for
\* n >= 1) reaches its return.
C9_WalksTerminate ==
    /\ []C9_WalkBounded
    /\ (Running /\ m >= 1 /\ (InCount \/ n >= 1)) ~> (frame.pc = "done")

C9_Witness ==
    /\ InHasOne /\ frame.pc = "done" /\ m >= 2 /\ L >= 2
    /\ frame.actual_orbit_length = L * m + n
    /\ frame.actual_orbit_length >= 6

\* C10: with the origin of every orbit picked freely among the strands still in
\* the working set, the decomposition returns the totals
\* count_components_with_orientability returns.
C10_OriginIndependent ==
    (InCount /\ frame.pc = "done") =>
        ret = count_components_with_orientability(Perm, m, n).value

\* The last orbit was walked from a strand that is not its least one.
C10_Witness ==
    /\ InCount /\ frame.pc = "done" /\ m >= 1 /\ n >= 1 /\ L >= 2
    /\ ret[1] >= 1 /\ ret[2] >= 1
    /\ \E s \in OrbitOf(Perm, m, n, frame.first_strand) : StrandLess(s, frame.first_strand)

\* The greatest common divisor of a and b, a >= 1.
GCD(a, b) ==
    CHOOSE d \in 1..a : /\ a % d = 0 /\ b % d = 0
                        /\ \A e \in 1..a : (a % e = 0 /\ b % e = 0) => e <= d

\* The positions of the entries for the pair (mm, nn) in a returned vector.
EntriesFor(v, mm, nn) == {i \in 1..Len(v) : v[i][1] = <<mm, nn>>}

\* C6: count_components_upto_complexity(perm, C) holds exactly one entry for
\* each pair (m, n) with m >= 1, n >= 1, m + n < C and gcd(m + n, n) = 1, with
\* the counts of count_components_with_orientability(perm, m, n), and no
\* other entry; it is empty for C <= 2.
C6_EnumeratesCoprimePairs ==
    (op = "count_components_upto_complexity" /\ frame.pc = "done") =>
        /\ \A i \in 1..Len(ret) : /\ ret[i][1][1] \in 0..complexity
                                  /\ ret[i][1][2] \in 0..complexity
        /\ \A mm \in 0..complexity, nn \in 0..complexity :
             IF mm >= 1 /\ nn >= 1 /\ mm + nn < complexity /\ GCD(mm + nn, nn) = 1
             THEN /\ Cardinality(EntriesFor(ret, mm, nn)) = 1
                  /\ \A i \in EntriesFor(ret, mm, nn) :
                       /\ ret[i][2] = count_components_with_orientability(Perm, mm, nn).value
                       /\ ret[i][2] = OrbitCounts(Perm, mm, nn)
             ELSE EntriesFor(ret, mm, nn) = {}
        /\ complexity <= 2 => ret = << >>

C6_Witness ==
    /\ op = "count_components_upto_complexity" /\ frame.pc = "done"
    /\ complexity = 5 /\ L = 2 /\ flip_set # {}
    /\ Len(ret) = 5
    /\ EntriesFor(ret, 2, 2) = {}
    /\ \E i \in 1..Len(ret) : ret[i][2][2] >= 1

\* C7: the pairs two_sided_multicurves_upto_complexity(perm, C) returns are
\* the pairs whose entry in count_components_upto_complexity(perm, C) has a
\* one-sided count of 0.
C7_TwoSidedIsFilteredReport ==
    (op = "two_sided_multicurves_upto_complexity" /\ frame.pc = "done") =>
        LET full == count_components_upto_complexity(Perm, complexity)
        IN  {ret[i] : i \in 1..Len(ret)}
                = {full[i][1] : i \in {j \in 1..Len(full) : full[j][2][2] = 0}}

C7_Witness ==
    /\ op = "two_sided_multicurves_upto_complexity" /\ frame.pc = "done"
    /\ complexity = 5 /\ L = 2
    /\ Len(ret) >= 1
    /\ Len(ret) < Len(count_components_upto_complexity(Perm, complexity))

\* What the task for item t of the running enumerator computes.
TaskOutput(t) ==
    IF op = "count_components_upto_complexity"
    THEN FullTask(Perm, t[1], t[2])
    ELSE TwoSidedTask(Perm, t[1], t[2])

InEnum ==
    op \in {"count_components_upto_complexity", "two_sided_multicurves_upto_complexity"}

\* C11: whatever the order in which the (k, n) tasks run, every task that has
\* run has left its own output and nothing else, no task runs twice or is
\* lost, and the vector returned is the one the sequential iteration over the
\* same permutation and complexity yields (so it is the same on every call).
C11_ScheduleIndependent ==
    InEnum =>
        /\ frame.pc = "tasks" =>
             /\ pending \cap DOMAIN out = {}
             /\ pending \cup DOMAIN out = Tasks(complexity)
        /\ \A t \in DOMAIN out : out[t] = TaskOutput(t)
        /\ frame.pc = "done" =>
             /\ DOMAIN out = Tasks(complexity)
             /\ ret = IF op = "count_components_upto_complexity"
                      THEN count_components_upto_complexity(Perm, complexity)
                      ELSE two_sided_multicurves_upto_complexity(Perm, complexity)

\* A later task has run while the first one has not.
C11_Witness ==
    /\ InEnum /\ frame.pc = "tasks" /\ complexity = 5 /\ L = 2
    /\ <<4, 3>> \in DOMAIN out /\ out[<<4, 3>>] # << >>
    /\ <<2, 1>> \in pending

\* The length of the sequence SignedPermutation::new was given.
SeqLen == Cardinality(DOMAIN sequence)

\* s maps 0..len-1 one-to-one onto itself.
IsBijection(s) ==
    /\ \A i \in DOMAIN s : s[i] < Cardinality(DOMAIN s)
    /\ \A i, j \in DOMAIN s : s[i] = s[j] => i = j

\* C12: construction fails with InvalidPermutation exactly when the sequence
\* is not a bijection on 0..L-1; otherwise it fails with InvalidFlipset exactly
\* when some flip is >= L; otherwise it succeeds.  [0,0] fails with
\* InvalidPermutation, a permutation of length 2 with flips [5] with
\* InvalidFlipset.
C12_ConstructionErrors ==
    built # "new" =>
        /\ built = "InvalidPermutation" <=> ~IsBijection(sequence)
        /\ built = "InvalidFlipset" <=>
               (IsBijection(sequence) /\ \E v \in flips : v >= SeqLen)
        /\ built = "ok" <=>
               (IsBijection(sequence) /\ \A v \in flips : v < SeqLen)
        /\ sequence = [i \in 0..1 |-> 0] => built = "InvalidPermutation"
        /\ (SeqLen = 2 /\ IsBijection(sequence) /\ flips = {5})
               => built = "InvalidFlipset"

C12_Witness ==
    /\ built = "InvalidFlipset" /\ SeqLen = 2 /\ flips = {5}
    /\ sequence = [i \in 0..1 |-> 1 - i]

\* An evaluation has just been made.
Evaluated == op = "__call__" /\ frame.pc \in {"done", "error"}

\* The flip bit of index i.
FlipBit(i) == IF i \in flips THEN 1 ELSE 0

\* The position at which value v occurs in the sequence s.
PositionOf(s, v) == CHOOSE i \in DOMAIN s : s[i] = v

\* C13 as stated: evaluation at an in-range index i returns (s[i], f) for the
\* supplied sequence s; evaluation at an index >= L fails with
\* InvalidPermutation.
C13_ReturnsSuppliedImage ==
    Evaluated =>
        IF frame.input >= L
        THEN frame.pc = "error" /\ frame.err = "InvalidPermutation"
        ELSE frame.pc = "done" /\ ret = <<sequence[frame.input], FlipBit(frame.input)>>

\* C13: evaluation at an in-range index i returns (p, f) where p is the
\* position at which i occurs in the supplied sequence (the image of i under
\* the inverse of the supplied permutation), f = 1 if i is in the flip set
\* and 0 otherwise; evaluation at an index >= L fails with InvalidPermutation.
C13_ReturnsStoredImage ==
    Evaluated =>
        IF frame.input >= L
        THEN frame.pc = "error" /\ frame.err = "InvalidPermutation" /\ ret = << >>
        ELSE /\ frame.pc = "done"
             /\ ret = <<PositionOf(sequence, frame.input), FlipBit(frame.input)>>

C13_Witness ==
    /\ Evaluated /\ frame.pc = "done" /\ L = 3
    /\ ret[1] # sequence[frame.input]
    /\ ret[2] = 1

\* The stored object is well formed, and there is none after a failure.
ObjectValid ==
    /\ built = "ok" =>
           /\ DOMAIN permutation = 0..(SeqLen - 1)
           /\ \A v \in 0..(SeqLen - 1) :
                  Cardinality({i \in DOMAIN permutation : permutation[i] = v}) = 1
           /\ \A i \in DOMAIN permutation : permutation[i] # SeqLen
           /\ flip_set \subseteq 0..(SeqLen - 1)
    /\ built # "ok" =>
           /\ permutation = << >> /\ flip_set = {}
           /\ op = "none" /\ frame = Idle

\* C14: a constructed SignedPermutation always holds every value 0..L-1
\* exactly once (never the sentinel L) and a flip_set within 0..L-1; a failed
\* construction leaves no object; and no query changes the stored permutation
\* or flip_set.
C14_ObjectValidAndImmutable ==
    /\ []ObjectValid
    /\ [][built = "ok" =>
              /\ built' = "ok"
              /\ permutation' = permutation
              /\ flip_set' = flip_set]_vars

C14_Witness ==
    /\ built = "ok" /\ L = 3 /\ flip_set # {}
    /\ op = "count_components_with_orientability" /\ frame.pc = "done"
    /\ \E i \in DOMAIN permutation : permutation[i] # i

\* C15: has_one_component called with n = 0 never returns a value: the call
\* aborts, whatever m >= 0 and the SignedPermutation are.
C15_ZeroTransverseNeverReturns ==
    (InHasOne /\ n = 0) => (frame.pc # "done" /\ ret = << >>)

C15_Witness ==
    /\ InHasOne /\ n = 0 /\ m = Word \div 2 /\ L = 2
    /\ frame.pc = "done"
    /\ ret = <<FALSE, 0>>

\* C16: with m = 0 and n >= 1 nothing divides by m: the strand space holds no
\* PermutationDirection strand, every Transverse(i) with i < n steps to a
\* Transverse strand of the space, and neither has_one_component nor
\* count_components_with_orientability aborts.
C16_ZeroMultiplicityNeverDivides ==
    ((InHasOne \/ InCount) /\ m = 0 /\ n >= 1) =>
        /\ frame.pc # "panic"
        /\ AllStrands(Perm, m, n) = {Transverse(i) : i \in 0..(n - 1)}
        /\ \A i \in 0..(n - 1) :
               LET r == get_next_major_strand(Perm, m, n, Transverse(i))
               IN  /\ r.err = "none"
                   /\ r.strand.tag = "Transverse"
                   /\ r.strand.a < n
        /\ frame.next_strand # None => frame.next_strand.tag = "Transverse"

C16_Witness ==
    /\ InCount /\ m = 0 /\ n >= 2 /\ L >= 1 /\ flip_set # {}
    /\ frame.pc = "done"
    /\ ret = <<n, 0>>

\* The reference rule for one strand: the next strand and the flip flag.
ReferenceRule(s) ==
    IF s.tag = "PermutationDirection"
    THEN LET j == s.a
             k == s.b
             kk == IF j \in flip_set THEN m - k - 1 ELSE k
             a == m * permutation[j] + kk
         IN  [flag |-> IF j \in flip_set THEN 1 ELSE 0,
              strand |-> IF a + n < L * m
                         THEN [tag |-> "PermutationDirection",
                               a |-> (a + n) \div m, b |-> (a + n) % m]
                         ELSE [tag |-> "Transverse", a |-> L * m - a - 1, b |-> 0]]
    ELSE LET i == s.a
         IN  [flag |-> 0,
              strand |-> IF i + L * m < n
                         THEN [tag |-> "Transverse", a |-> i + L * m, b |-> 0]
                         ELSE [tag |-> "PermutationDirection",
                               a |-> (n - i - 1) \div m, b |-> (n - i - 1) % m]]

\* C17: for m >= 1 and n >= 0 get_next_major_strand returns, for every strand
\* of the strand space, exactly the strand and the flip flag of the reference
\* rule.
C17_MatchesReferenceRule ==
    (Entered /\ m >= 1) =>
        \A s \in Space :
            LET r == get_next_major_strand(Perm, m, n, s)
            IN  /\ r.err = "none"
                /\ r.strand = ReferenceRule(s).strand
                /\ r.flipped = ReferenceRule(s).flag

C17_Witness ==
    /\ Entered /\ m >= 2 /\ n >= 1 /\ L >= 2
    /\ \E s \in Space :
           /\ s.tag = "PermutationDirection" /\ s.a \in flip_set
           /\ s.b # m - s.b - 1
           /\ get_next_major_strand(Perm, m, n, s).strand.tag = "Transverse"
    /\ \E s \in Space :
           /\ s.tag = "Transverse"
           /\ get_next_major_strand(Perm, m, n, s).strand.tag = "PermutationDirection"

\* The order of strands: every Transverse strand before every
\* PermutationDirection strand, Transverse strands by index,
\* PermutationDirection strands lexicographically by (j, k).
Precedes(s, t) ==
    \/ s.tag = "Transverse" /\ t.tag = "PermutationDirection"
    \/ s.tag = "Transverse" /\ t.tag = "Transverse" /\ s.a < t.a
    \/ /\ s.tag = "PermutationDirection" /\ t.tag = "PermutationDirection"
       /\ (s.a < t.a \/ (s.a = t.a /\ s.b < t.b))

\* The outer loop of count_components_with_orientability is about to take an
\* origin out of the working set.
TakesOrigin == InCount /\ frame.pc = "outer" /\ frame.strands # {}

\* C18: the origin of every orbit of count_components_with_orientability is
\* the minimum of the working set in the order Precedes; for n >= 1 the first
\* origin is Transverse(0); and each origin is strictly greater than the one
\* before it.
C18_OriginsAscend ==
    [][TakesOrigin =>
           /\ frame'.first_strand \in frame.strands
           /\ \A s \in frame.strands :
                  s = frame'.first_strand \/ Precedes(frame'.first_strand, s)
           /\ (removed = << >> /\ n >= 1) => frame'.first_strand = Transverse(0)
           /\ frame.first_strand # None =>
                  Precedes(frame.first_strand, frame'.first_strand)]_vars

C18_Witness ==
    /\ InCount /\ frame.pc = "inner" /\ n >= 1 /\ m >= 2
    /\ frame.two_sided_components + frame.one_sided_components >= 2
    /\ frame.first_strand.tag = "PermutationDirection"
    /\ frame.first_strand.a >= 1

\* The step of PermutationDirection(j, k) when the mapping applied to j is
\* the inverse of the sequence the object was constructed from.
StepByInverse(j, k) ==
    LET kk == IF j \in flips THEN m - k - 1 ELSE k
        a == m * PositionOf(sequence, j) + kk
    IN  IF a + n < SeqLen * m
        THEN PermutationDirection((a + n) \div m, (a + n) % m)
        ELSE Transverse(SeqLen * m - a - 1)

\* C19: a constructed SignedPermutation stores the inverse of its sequence s:
\* evaluation at s[i] returns image i, evaluation at v returns the position
\* of v in s, and get_next_major_strand steps a PermutationDirection strand
\* by this inverse.
C19_StoresInverse ==
    built = "ok" =>
        /\ \A i \in DOMAIN sequence :
               SignedPermutationCall(Perm, sequence[i]).value[1] = i
        /\ \A v \in 0..(L - 1) :
               SignedPermutationCall(Perm, v).value[1] = PositionOf(sequence, v)
        /\ (Entered /\ m >= 1) =>
               \A j \in 0..(L - 1), k \in 0..(m - 1) :
                   get_next_major_strand(Perm, m, n, PermutationDirection(j, k)).strand
                       = StepByInverse(j, k)

C19_Witness ==
    /\ built = "ok" /\ L = 3
    /\ \E i \in DOMAIN sequence : sequence[sequence[i]] # i
    /\ InCount /\ m >= 1 /\ frame.pc = "inner"
    /\ frame.first_strand.tag = "PermutationDirection"
    /\ frame.next_strand.a # frame.first_strand.a

====
